---- MODULE Spec2Model ----
(***************************************************************************)
(* A model of the Backtest_Engine core: the position ledger and the AIMD   *)
(* ask sizer of aimd.py and the per-tick protocol of engine.py             *)
(* (Orchestrator.process_tick and the methods it calls).                   *)
(*                                                                         *)
(* Numbers.  Positions, ask sizes, tick times (seconds of the day) and     *)
(* prices are integers.  The transaction cost is the fraction              *)
(* TranCostNum / TranCostDen, and every amount of money (cash, equity,     *)
(* fees, PnL) is kept as an integer count of 1/TranCostDen units, so that  *)
(* the arithmetic of the source is exact in the model.  penalty_mult is    *)
(* the fraction PenaltyNum / PenaltyDen.                                   *)
(***************************************************************************)
EXTENDS Integers, Sequences, FiniteSets, TLC

VARIABLES
    \* ---- Position (aimd.py) ----
    pos,                 \* Position.pos: per-slot signed target position
    inventory_limit,     \* Position.inventory_limit
    \* ---- Asks (aimd.py) ----
    asks,                \* Asks.asks: per-slot ask limit
    \* ---- Orchestrator (engine.py) ----
    trade_limit,         \* Orchestrator.trade_limit
    cooldown_period,     \* Orchestrator.cooldown_period
    cash,                \* Orchestrator.cash            (money units)
    equity,              \* Orchestrator.equity          (money units)
    total_fee,           \* Orchestrator.total_fee       (money units)
    entry_prices,        \* Orchestrator.entry_prices
    entry_times,        \* Orchestrator.entry_times (NoTime when absent)
    last_trade_time,     \* Orchestrator.last_trade_time
    eod_squared_off,     \* Orchestrator.eod_squared_off
    current_pointer,     \* Orchestrator.current_pointer
    trade_backlog,       \* Orchestrator.trade_backlog
    current_inventory,   \* Orchestrator.current_inventory
    current_day,         \* Orchestrator.current_day (NoDay before the first tick)
    day_start,           \* day_start_equity, day_start_fees, day_start_trade_idx
    trade_book,          \* Orchestrator.trade_book: its length and its last row
    snap_book,           \* Orchestrator.snap_book: its length and its last row
    \* ---- Strategy collaborators (strategy.py, base class state) ----
    strat_entry_price,   \* Strategy.entry_price of every strategy
    \* ---- what the last call did (observation of the run) ----
    path,                \* the branch the last process_tick returned from
    tick,                \* the tick record and day number of the last call
    call                 \* arguments and results of the calls of the last tick

vars == <<pos, inventory_limit, asks, trade_limit, cooldown_period, cash, equity,
          total_fee, entry_prices, entry_times, last_trade_time, eod_squared_off,
          current_pointer, trade_backlog, current_inventory, current_day,
          day_start, trade_book, snap_book, strat_entry_price, path, tick, call>>

(***************************************************************************)
(* Bounds of the model and the configuration it is run with.               *)
(***************************************************************************)
\* number of process_tick calls of one run
MaxTicks == 4
\* number of days of one run
MaxDay == 2
\* the configuration of the run: engine.inventory_limit, engine.trade_limit,
\* engine.cooldown_period
InventoryLimit == 3
TradeLimit == 2
CooldownPeriod == 1
\* tick times of a day: 0..MaxEarly and DayLength..DayLength+MaxLate
MaxEarly == 1
MaxLate == 0

\* the ledger on its own: its slots, its largest inventory limit and the
\* largest size requested of it
LedgerSlots == 3
MaxLedgerLimit == 2
MaxAskAbs == 2
\* the ask sizer on its own: Asks.update is called while no ask exceeds MaxAsk
MaxAsk == 4

\* len(strategies)
NumStrats == 2
\* engine.aimd.initial_ask, reward_add, penalty_mult = PenaltyNum/PenaltyDen
InitialAsk == 2
RewardAdd == 1
PenaltyNum == 1
PenaltyDen == 2
\* engine.transaction_cost = TranCostNum/TranCostDen
TranCostNum == 1
TranCostDen == 4
\* engine.initial_equity, in money units of 1/TranCostDen
InitialEquity == 400
\* engine.snapshot_period
SnapshotPeriod == 2
\* self.day_length = 6 * 3600
DayLength == 21600

NoDay == 0
NoTime == -1
Prices == {1, 3}
TickTimes == (0..MaxEarly) \cup (DayLength..(DayLength + MaxLate))
Slots == 1..NumStrats

(***************************************************************************)
(* Arithmetic of the source.                                               *)
(***************************************************************************)
Abs(x) == IF x < 0 THEN -x ELSE x

\* np.sign
Sign(x) == IF x > 0 THEN 1 ELSE IF x < 0 THEN -1 ELSE 0

Min(a, b) == IF a <= b THEN a ELSE b

Max(a, b) == IF a >= b THEN a ELSE b

\* Python's sum() of a list
RECURSIVE SumSeq(_)
SumSeq(s) == IF s = <<>> THEN 0 ELSE Head(s) + SumSeq(Tail(s))

\* Python's int() of the quotient n/d (d > 0): truncation toward zero
IntTrunc(n, d) == IF n >= 0 THEN n \div d ELSE -((-n) \div d)

\* Python's round() of the quotient n/d (d > 0) to an integer: half to even
RoundHalfEven(n, d) ==
    LET q == n \div d
        r == n % d
    IN  IF 2 * r < d THEN q
        ELSE IF 2 * r > d THEN q + 1
        ELSE IF q % 2 = 0 THEN q ELSE q + 1

(***************************************************************************)
(* Position (aimd.py).                                                     *)
(***************************************************************************)
\* normalize without the clamp
normalize_unclamped(p, limit) == p

\* the loop of normalize without marking the capacity used after a clamp
RECURSIVE normalize_from_each(_, _, _, _)
normalize_from_each(p, i, current_limit, limit) ==
    IF i > Len(p) THEN p
    ELSE IF current_limit + Abs(p[i]) > limit
         THEN normalize_from_each(
                  [p EXCEPT ![i] = (limit - current_limit) * (IF p[i] > 0 THEN 1 ELSE -1)],
                  i + 1, current_limit, limit)
         ELSE normalize_from_each(p, i + 1, current_limit + Abs(p[i]), limit)

\* the loop of normalize from slot i on, with current_limit used so far
RECURSIVE normalize_from(_, _, _, _)
normalize_from(p, i, current_limit, limit) ==
    IF i > Len(p) THEN p
    ELSE IF current_limit + Abs(p[i]) > limit
         THEN normalize_from(
                  [p EXCEPT ![i] = (limit - current_limit) * (IF p[i] > 0 THEN 1 ELSE -1)],
                  i + 1, limit, limit)
         ELSE normalize_from(p, i + 1, current_limit + Abs(p[i]), limit)

\* normalize clamping every slot to the limit on its own
normalize_per_slot(p, limit) ==
    [i \in 1..Len(p) |-> IF Abs(p[i]) > limit
                         THEN limit * (IF p[i] > 0 THEN 1 ELSE -1)
                         ELSE p[i]]

normalize(p, limit) == normalize_from(p, 1, 0, limit)

\* update_slot with a direction lock that opens any flat slot that has a request
update_slot_unlocked(st, i, a) ==
    LET p == st.pos[i]
    IN  IF a * p < 0
        THEN [st EXCEPT !.aimd[i] = 1, !.pos[i] = 0]
        ELSE IF st.direction # 0
        THEN IF a # 0 /\ p = 0
             THEN [st EXCEPT !.pos[i] = p + a]
             ELSE IF p * st.direction < 0
             THEN [st EXCEPT !.aimd[i] = 1, !.pos[i] = 0]
             ELSE st
        ELSE [st EXCEPT
                 !.direction = IF a > 0 THEN 1 ELSE IF a < 0 THEN -1
                               ELSE IF p > 0 THEN 1 ELSE IF p < 0 THEN -1 ELSE 0,
                 !.pos[i] = p + a]

\* update_slot with a square-off that also locks the direction of its request
update_slot_squareoff_locks(st, i, a) ==
    LET p == st.pos[i]
    IN  IF a * p < 0
        THEN [st EXCEPT !.aimd[i] = 1, !.pos[i] = 0,
                        !.direction = IF st.direction = 0 THEN Sign(a)
                                      ELSE st.direction]
        ELSE IF st.direction # 0
        THEN IF a * st.direction > 0 /\ p = 0
             THEN [st EXCEPT !.pos[i] = p + a]
             ELSE IF p * st.direction < 0
             THEN [st EXCEPT !.aimd[i] = 1, !.pos[i] = 0]
             ELSE st
        ELSE [st EXCEPT
                 !.direction = IF a > 0 THEN 1 ELSE IF a < 0 THEN -1
                               ELSE IF p > 0 THEN 1 ELSE IF p < 0 THEN -1 ELSE 0,
                 !.pos[i] = p + a]

\* update_slot with a direction that every later request sets again
update_slot_relock(st, i, a) ==
    LET p == st.pos[i]
    IN  IF a * p < 0
        THEN [st EXCEPT !.aimd[i] = 1, !.pos[i] = 0]
        ELSE IF st.direction # 0 /\ a = 0
        THEN IF p * st.direction < 0
             THEN [st EXCEPT !.aimd[i] = 1, !.pos[i] = 0]
             ELSE st
        ELSE [st EXCEPT
                 !.direction = IF a > 0 THEN 1 ELSE IF a < 0 THEN -1
                               ELSE IF p > 0 THEN 1 ELSE IF p < 0 THEN -1 ELSE 0,
                 !.pos[i] = p + a]

\* update_slot with a square-off that reopens the slot on the requested side
update_slot_flips(st, i, a) ==
    LET p == st.pos[i]
    IN  IF a * p < 0
        THEN [st EXCEPT !.aimd[i] = 1, !.pos[i] = a]
        ELSE IF st.direction # 0
        THEN IF a * st.direction > 0 /\ p = 0
             THEN [st EXCEPT !.pos[i] = p + a]
             ELSE IF p * st.direction < 0
             THEN [st EXCEPT !.aimd[i] = 1, !.pos[i] = 0]
             ELSE st
        ELSE [st EXCEPT
                 !.direction = IF a > 0 THEN 1 ELSE IF a < 0 THEN -1
                               ELSE IF p > 0 THEN 1 ELSE IF p < 0 THEN -1 ELSE 0,
                 !.pos[i] = p + a]

\* one iteration of the loop of update_position; st = [pos, aimd, direction]
update_slot(st, i, a) ==
    LET p == st.pos[i]
    IN  IF a * p < 0
        THEN [st EXCEPT !.aimd[i] = 1, !.pos[i] = 0]
        ELSE IF st.direction # 0
        THEN IF a * st.direction > 0 /\ p = 0
             THEN [st EXCEPT !.pos[i] = p + a]
             ELSE IF p * st.direction < 0
             THEN [st EXCEPT !.aimd[i] = 1, !.pos[i] = 0]
             ELSE st
        ELSE [st EXCEPT
                 !.direction = IF a > 0 THEN 1 ELSE IF a < 0 THEN -1
                               ELSE IF p > 0 THEN 1 ELSE IF p < 0 THEN -1 ELSE 0,
                 !.pos[i] = p + a]

RECURSIVE update_loop(_, _, _)
update_loop(st, i, signed_asks) ==
    IF i > Len(signed_asks) THEN st
    ELSE update_loop(update_slot(st, i, signed_asks[i]), i + 1, signed_asks)

\* update_position returning previous exposure minus current exposure
update_position_reversed(p, signals, asks_abs, limit) ==
    LET signed_asks == [i \in 1..Len(asks_abs) |-> asks_abs[i] * signals[i]]
        st == update_loop([pos |-> p, aimd |-> [i \in 1..Len(asks_abs) |-> 0],
                           direction |-> 0], 1, signed_asks)
        new_pos == normalize(st.pos, limit)
    IN  [pos |-> new_pos,
         trades_to_execute |-> SumSeq(p) - SumSeq(new_pos),
         aimd |-> st.aimd,
         direction |-> st.direction]

\* update_position returning the change of the gross exposure
update_position_gross(p, signals, asks_abs, limit) ==
    LET signed_asks == [i \in 1..Len(asks_abs) |-> asks_abs[i] * signals[i]]
        st == update_loop([pos |-> p, aimd |-> [i \in 1..Len(asks_abs) |-> 0],
                           direction |-> 0], 1, signed_asks)
        new_pos == normalize(st.pos, limit)
    IN  [pos |-> new_pos,
         trades_to_execute |->
             SumSeq([i \in 1..Len(new_pos) |-> Abs(new_pos[i])])
             - SumSeq([i \in 1..Len(p) |-> Abs(p[i])]),
         aimd |-> st.aimd,
         direction |-> st.direction]

\* Position.update_position: the new positions, the net trade quantity and
\* the closed flags
update_position(p, signals, asks_abs, limit) ==
    LET signed_asks == [i \in 1..Len(asks_abs) |-> asks_abs[i] * signals[i]]
        st == update_loop([pos |-> p, aimd |-> [i \in 1..Len(asks_abs) |-> 0],
                           direction |-> 0], 1, signed_asks)
        new_pos == normalize(st.pos, limit)
    IN  [pos |-> new_pos,
         trades_to_execute |-> SumSeq(new_pos) - SumSeq(p),
         aimd |-> st.aimd,
         direction |-> st.direction]

\* a reset that leaves the positions as they are
reset_position_keeps(n) == pos

\* Position.reset_position
reset_position(n) == [i \in 1..n |-> 0]

(***************************************************************************)
(* Asks (aimd.py).                                                         *)
(***************************************************************************)
\* Asks.update without the floor of 1 on the multiplicative decrease
asks_update_unfloored(a, last_traded_pnl, aimd) ==
    [i \in 1..Len(a) |->
        IF last_traded_pnl[i] # 0 /\ aimd[i] = 1
        THEN IF last_traded_pnl[i] > 0
             THEN a[i] + RewardAdd
             ELSE IntTrunc(a[i] * PenaltyNum, PenaltyDen)
        ELSE a[i]]

\* Asks.update with a floor of 0 on the multiplicative decrease
asks_update_floor_zero(a, last_traded_pnl, aimd) ==
    [i \in 1..Len(a) |->
        IF last_traded_pnl[i] # 0 /\ aimd[i] = 1
        THEN IF last_traded_pnl[i] > 0
             THEN a[i] + RewardAdd
             ELSE Max(0, IntTrunc(a[i] * PenaltyNum, PenaltyDen))
        ELSE a[i]]

\* Asks.update
asks_update(a, last_traded_pnl, aimd) ==
    [i \in 1..Len(a) |->
        IF last_traded_pnl[i] # 0 /\ aimd[i] = 1
        THEN IF last_traded_pnl[i] > 0
             THEN a[i] + RewardAdd
             ELSE Max(1, IntTrunc(a[i] * PenaltyNum, PenaltyDen))
        ELSE a[i]]

(***************************************************************************)
(* Orchestrator (engine.py).                                               *)
(***************************************************************************)
\* what a strategy answers to the four check_* calls of one tick
Answer(le, se, lx, sx) ==
    [long_entry |-> le, short_entry |-> se, long_exit |-> lx, short_exit |-> sx]

\* the answers to the checks get_signals makes for a slot holding p: a flat slot
\* is asked check_long_entry and, if that is False, check_short_entry; a long
\* slot is asked check_long_exit and a short slot check_short_exit
AnswersFor(p) ==
    IF p = 0
    THEN {Answer(FALSE, FALSE, FALSE, FALSE), Answer(TRUE, FALSE, FALSE, FALSE),
          Answer(FALSE, TRUE, FALSE, FALSE)}
    ELSE IF p > 0
    THEN {Answer(FALSE, FALSE, FALSE, FALSE), Answer(FALSE, FALSE, TRUE, FALSE)}
    ELSE {Answer(FALSE, FALSE, FALSE, FALSE), Answer(FALSE, FALSE, FALSE, TRUE)}

\* get_signals asking a flat slot for a short entry first
get_signals_short_first(p, answers) ==
    [i \in 1..Len(p) |->
        IF p[i] = 0
        THEN IF answers[i].short_entry THEN -1
             ELSE IF answers[i].long_entry THEN 1 ELSE 0
        ELSE IF p[i] > 0 /\ answers[i].long_exit THEN -1
        ELSE IF p[i] < 0 /\ answers[i].short_exit THEN 1
        ELSE 0]

\* Orchestrator.get_signals
get_signals(p, answers) ==
    [i \in 1..Len(p) |->
        IF p[i] = 0
        THEN IF answers[i].long_entry THEN 1
             ELSE IF answers[i].short_entry THEN -1 ELSE 0
        ELSE IF p[i] > 0 /\ answers[i].long_exit THEN -1
        ELSE IF p[i] < 0 /\ answers[i].short_exit THEN 1
        ELSE 0]

\* Orchestrator._calc_pnl: the PnL it returns and the cost it adds to total_fee
calc_pnl(entry_price, exit_price, position) ==
    LET price_pnl == (exit_price - entry_price) * Sign(position) * TranCostDen
        transaction_cost == TranCostNum * (entry_price + exit_price)
    IN  [pnl |-> (price_pnl - transaction_cost) * Abs(position),
         fee |-> transaction_cost * Abs(position)]

\* Orchestrator._compute_strategy_pnl, reading self.entry_prices as they are
\* when it is called
compute_strategy_pnl(eprices, current_price, prev_pos, final_pos) ==
    [i \in 1..Len(prev_pos) |->
        IF prev_pos[i] # 0 /\ final_pos[i] * prev_pos[i] <= 0
        THEN calc_pnl(eprices[i], current_price, prev_pos[i])
        ELSE [pnl |-> 0, fee |-> 0]]

\* process_tick lines 120-131: entry price and entry time bookkeeping
entry_bookkeeping(old, prev_pos, curr_pos, entered, cleared) ==
    [i \in 1..Len(prev_pos) |->
        IF prev_pos[i] = 0 /\ curr_pos[i] # 0 THEN entered
        ELSE IF curr_pos[i] = 0 /\ prev_pos[i] # 0 THEN cleared
        ELSE old[i]]

\* a day rollover that leaves eod_squared_off as it is
day_rollover_keeps_eod(day_num, price) ==
    IF current_day # day_num
    THEN LET e == cash + current_inventory * price * TranCostDen
         IN  [current_day |-> day_num,
              equity |-> e,
              last_trade_time |-> -cooldown_period,
              day_start |-> [equity |-> e, fees |-> total_fee,
                             trade_idx |-> trade_book.len],
              eod_squared_off |-> eod_squared_off]
    ELSE [current_day |-> current_day,
          equity |-> equity,
          last_trade_time |-> last_trade_time,
          day_start |-> day_start,
          eod_squared_off |-> eod_squared_off]

\* a day rollover that resets the day state on every tick
day_rollover_always(day_num, price) ==
    LET e == cash + current_inventory * price * TranCostDen
    IN  [current_day |-> day_num,
         equity |-> e,
         last_trade_time |-> -cooldown_period,
         day_start |-> [equity |-> e, fees |-> total_fee,
                        trade_idx |-> trade_book.len],
         eod_squared_off |-> FALSE]

\* a day rollover that keeps the time of the last release
day_rollover_keeps_baseline(day_num, price) ==
    IF current_day # day_num
    THEN LET e == cash + current_inventory * price * TranCostDen
         IN  [current_day |-> day_num,
              equity |-> e,
              last_trade_time |-> last_trade_time,
              day_start |-> [equity |-> e, fees |-> total_fee,
                             trade_idx |-> trade_book.len],
              eod_squared_off |-> FALSE]
    ELSE [current_day |-> current_day,
          equity |-> equity,
          last_trade_time |-> last_trade_time,
          day_start |-> day_start,
          eod_squared_off |-> eod_squared_off]

\* process_tick lines 78-88: the fields a new day identifier resets
day_rollover(day_num, price) ==
    IF current_day # day_num
    THEN LET e == cash + current_inventory * price * TranCostDen
         IN  [current_day |-> day_num,
              equity |-> e,
              last_trade_time |-> -cooldown_period,
              day_start |-> [equity |-> e, fees |-> total_fee,
                             trade_idx |-> trade_book.len],
              eod_squared_off |-> FALSE]
    ELSE [current_day |-> current_day,
          equity |-> equity,
          last_trade_time |-> last_trade_time,
          day_start |-> day_start,
          eod_squared_off |-> eod_squared_off]

\* Orchestrator._portfolio_snapshot (line 94 decides whether it is called):
\* Equity and Cash are rounded to 2 decimals, i.e. kept in hundredths
is_snapshot_tick(t) == t % SnapshotPeriod = 0

portfolio_snapshot(day_num, t, price) ==
    LET e == cash + current_inventory * price * TranCostDen
    IN  [len |-> snap_book.len + 1,
         last |-> [Time |-> t, Price |-> price, Day |-> day_num,
                   Equity |-> RoundHalfEven(e * 100, TranCostDen),
                   Cash |-> RoundHalfEven(cash * 100, TranCostDen),
                   Inventory |-> SumSeq(pos)]]

\* a release condition that lets a release through when exactly cooldown has
\* passed
release_due_inclusive(backlog, t, last_release, cooldown) ==
    backlog # 0 /\ t - last_release >= cooldown

\* process_tick line 97: the condition under which a backlog slice is released
release_due(backlog, t, last_release, cooldown) ==
    backlog # 0 /\ t - last_release > cooldown

\* a release of a full trade_limit whatever the backlog holds
execute_qty_uncapped(backlog, limit) == limit * Sign(backlog)

\* a fee that takes the sign of the released quantity
execute_fee_signed(price, qty) == TranCostNum * price * qty

\* execute_trade lines 162-163: tran_cost * price * |execute_qty|, in money units
execute_fee(price, qty) == TranCostNum * price * Abs(qty)

\* a release that only ever buys
execute_qty_buy_only(backlog, limit) == IF backlog > 0 THEN Min(backlog, limit) ELSE 0

\* execute_trade line 159
execute_qty(backlog, limit) == Min(Abs(backlog), limit) * Sign(backlog)

\* an end-of-day test that misses the tick at exactly day_length
eod_due_strict(t) == t > DayLength

\* an end-of-day test at 6 hours 10 minutes
eod_due_commented(t) == t >= DayLength + 600

\* process_tick line 104: the tick is at or past the end of the day
eod_due(t) == t >= DayLength

\* Orchestrator._log_order: Transaction Cost is rounded to 4 decimals
log_order(day_num, t, price, quantity, side) ==
    [len |-> trade_book.len + 1,
     last |-> [Time |-> t, Price |-> price, Quantity |-> quantity, Side |-> side,
               Inventory |-> SumSeq(pos),
               TransactionCost |->
                   RoundHalfEven(TranCostNum * price * Abs(quantity) * 10000, TranCostDen),
               Day |-> day_num]]

\* the record of a tick that makes none of the calls recorded in call
NoCall == [answers |-> <<>>, signals |-> <<>>, asks_abs |-> <<>>, aimd |-> <<>>,
           pnl_list |-> <<>>, trades_to_execute |-> 0, execute_qty |-> 0]

\* the tick records the tick source may deliver next: the same day or the next
\* one, in nondecreasing time order within a day
TickAllowed(day_num, t) ==
    /\ tick.n < MaxTicks
    /\ day_num \in {current_day, current_day + 1}
    /\ day_num \in 1..MaxDay
    /\ (day_num = current_day => t >= current_pointer)

\* the part of process_tick every branch shares: lines 78-95
TickCommon(day_num, t, price) ==
    LET d == day_rollover(day_num, price)
    IN  /\ current_day' = d.current_day
        /\ day_start' = d.day_start
        /\ current_pointer' = t
        /\ equity' = IF is_snapshot_tick(t)
                     THEN cash + current_inventory * price * TranCostDen
                     ELSE d.equity
        /\ snap_book' = IF is_snapshot_tick(t)
                        THEN portfolio_snapshot(day_num, t, price)
                        ELSE snap_book
        /\ tick' = [n |-> tick.n + 1, Time |-> t, Price |-> price, Day |-> day_num]
        /\ UNCHANGED <<inventory_limit, trade_limit, cooldown_period>>

\* lines 97-99: a backlog slice is released and the tick ends
TickRelease(day_num, t, price) ==
    LET d == day_rollover(day_num, price)
        qty == execute_qty(trade_backlog, trade_limit)
        fee == execute_fee(price, qty)
    IN  /\ release_due(trade_backlog, t, d.last_trade_time, cooldown_period)
        /\ TickCommon(day_num, t, price)
        /\ trade_backlog' = trade_backlog - qty
        /\ current_inventory' = current_inventory + qty
        /\ cash' = cash - (qty * price * TranCostDen + fee)
        /\ total_fee' = total_fee + fee
        /\ trade_book' = log_order(day_num, t, price, Abs(qty),
                                   IF qty > 0 THEN "Buy" ELSE "Sell")
        /\ last_trade_time' = t
        /\ eod_squared_off' = d.eod_squared_off
        /\ path' = "release"
        /\ call' = [NoCall EXCEPT !.execute_qty = qty]
        /\ UNCHANGED <<pos, asks, entry_prices, entry_times, strat_entry_price>>

\* lines 101-102: the day is already squared off
TickAfterEod(day_num, t, price) ==
    LET d == day_rollover(day_num, price)
    IN  /\ ~release_due(trade_backlog, t, d.last_trade_time, cooldown_period)
        /\ d.eod_squared_off
        /\ TickCommon(day_num, t, price)
        /\ last_trade_time' = d.last_trade_time
        /\ eod_squared_off' = d.eod_squared_off
        /\ path' = "squared_off"
        /\ call' = NoCall
        /\ UNCHANGED <<pos, asks, entry_prices, entry_times, strat_entry_price,
                       trade_backlog, current_inventory, cash, total_fee, trade_book>>

\* lines 104-111: the forced square-off at the end of the day
TickSquareOff(day_num, t, price) ==
    LET d == day_rollover(day_num, price)
    IN  /\ ~release_due(trade_backlog, t, d.last_trade_time, cooldown_period)
        /\ ~d.eod_squared_off
        /\ eod_due(t)
        /\ TickCommon(day_num, t, price)
        /\ pos' = reset_position(Len(pos))
        /\ trade_backlog' = trade_backlog + (-SumSeq(pos))
        /\ eod_squared_off' = TRUE
        /\ strat_entry_price' = [i \in Slots |-> 0]
        /\ last_trade_time' = d.last_trade_time
        /\ path' = "eod"
        /\ call' = NoCall
        /\ UNCHANGED <<asks, entry_prices, entry_times, current_inventory, cash,
                       total_fee, trade_book>>

\* lines 113-134: signals, ledger update, bookkeeping and AIMD feedback
TickSignals(day_num, t, price, answers) ==
    LET d == day_rollover(day_num, price)
        signals == get_signals(pos, answers)
        r == update_position(pos, signals, asks, inventory_limit)
        eprices == entry_bookkeeping(entry_prices, pos, r.pos, price, 0)
        pnl == compute_strategy_pnl(eprices, price, pos, r.pos)
        pnl_list == [i \in Slots |-> pnl[i].pnl]
    IN  /\ ~release_due(trade_backlog, t, d.last_trade_time, cooldown_period)
        /\ ~d.eod_squared_off
        /\ ~eod_due(t)
        /\ TickCommon(day_num, t, price)
        /\ pos' = r.pos
        /\ trade_backlog' = trade_backlog + r.trades_to_execute
        /\ entry_prices' = eprices
        /\ entry_times' = entry_bookkeeping(entry_times, pos, r.pos, t, NoTime)
        /\ strat_entry_price' = entry_bookkeeping(strat_entry_price, pos, r.pos, price, 0)
        /\ total_fee' = total_fee + SumSeq([i \in Slots |-> pnl[i].fee])
        /\ asks' = asks_update(asks, pnl_list, r.aimd)
        /\ last_trade_time' = d.last_trade_time
        /\ eod_squared_off' = d.eod_squared_off
        /\ path' = "signals"
        /\ call' = [answers |-> answers,
                    signals |-> signals, asks_abs |-> asks, aimd |-> r.aimd,
                    pnl_list |-> pnl_list, trades_to_execute |-> r.trades_to_execute,
                    execute_qty |-> 0]
        /\ UNCHANGED <<current_inventory, cash, trade_book>>

\* Orchestrator.__init__ lines 21-74: the fields of the Orchestrator itself,
\* for the engine.trade_limit and engine.cooldown_period of the configuration;
\* no value of the configuration is rejected
InitOrchestratorWith(config_trade_limit, config_cooldown_period) ==
    /\ trade_limit = config_trade_limit
    /\ cooldown_period = config_cooldown_period
    /\ cash = InitialEquity
    /\ equity = InitialEquity
    /\ total_fee = 0
    /\ entry_prices = [i \in Slots |-> 0]
    /\ entry_times = [i \in Slots |-> NoTime]
    /\ last_trade_time = -cooldown_period
    /\ eod_squared_off = FALSE
    /\ current_pointer = 0
    /\ trade_backlog = 0
    /\ current_inventory = 0
    /\ current_day = NoDay
    /\ day_start = [equity |-> 0, fees |-> 0, trade_idx |-> 0]
    /\ trade_book = [len |-> 0, last |-> <<>>]
    /\ snap_book = [len |-> 0, last |-> <<>>]
    /\ strat_entry_price = [i \in Slots |-> 0]
    /\ tick = [n |-> 0, Time |-> 0, Price |-> 0, Day |-> NoDay]

InitOrchestrator == InitOrchestratorWith(TradeLimit, CooldownPeriod)

\* the state after Orchestrator.__init__
Init ==
    /\ inventory_limit = InventoryLimit
    /\ pos = [i \in Slots |-> 0]
    /\ asks = [i \in Slots |-> InitialAsk]
    /\ InitOrchestrator
    /\ path = "init"
    /\ call = NoCall

\* one call of process_tick, for every tick record the tick source may deliver
Next ==
    \E day_num \in {current_day, current_day + 1}, t \in TickTimes, price \in Prices :
        /\ TickAllowed(day_num, t)
        /\ \/ TickRelease(day_num, t, price)
           \/ TickAfterEod(day_num, t, price)
           \/ TickSquareOff(day_num, t, price)
           \/ \E answers \in [Slots -> UNION {AnswersFor(pos[i]) : i \in Slots}] :
                  /\ \A i \in Slots : answers[i] \in AnswersFor(pos[i])
                  /\ TickSignals(day_num, t, price, answers)

Spec == Init /\ [][Next]_vars

(***************************************************************************)
(* The engine with a tick source that keeps delivering ticks of the same   *)
(* day after the end-of-day square-off: whenever a backlog is waiting, a   *)
(* tick arrives at the first time of day past the cooldown, up to the last *)
(* tick of the day at DrainHorizon. Such a tick takes the release branch   *)
(* of process_tick (lines 97-99). Weak fairness on Drain says that these   *)
(* ticks keep arriving.                                                    *)
(***************************************************************************)
DrainHorizon == DayLength + MaxLate + 2 * InventoryLimit * (CooldownPeriod + 1)

DrainTime == Max(current_pointer, last_trade_time + cooldown_period + 1)

Drain ==
    \E price \in Prices :
        /\ eod_squared_off
        /\ trade_backlog # 0
        /\ DrainTime <= DrainHorizon
        /\ TickRelease(current_day, DrainTime, price)

DrainNext == Next \/ Drain

SpecDrain == Init /\ [][DrainNext]_vars /\ WF_vars(Drain)

(***************************************************************************)
(* The Position ledger on its own: a Position of LedgerSlots slots, built  *)
(* with any inventory limit of 0..MaxLedgerLimit, on which update_position *)
(* and reset_position are called with any signals and requested sizes (a   *)
(* slot without a signal requests size 1: its size is multiplied by 0).    *)
(***************************************************************************)
orchestrator_vars ==
    <<trade_limit, cooldown_period, cash, equity, total_fee, entry_prices,
      entry_times, last_trade_time, eod_squared_off, current_pointer, trade_backlog,
      current_inventory, current_day, day_start, trade_book, snap_book,
      strat_entry_price, tick>>

LedgerInit ==
    /\ inventory_limit \in 0..MaxLedgerLimit
    /\ pos = [i \in 1..LedgerSlots |-> 0]
    /\ asks = [i \in Slots |-> InitialAsk]
    /\ InitOrchestrator
    /\ path = "init"
    /\ call = NoCall

LedgerUpdate ==
    \E signals \in [1..Len(pos) -> {-1, 0, 1}],
       asks_abs \in [1..Len(pos) -> 1..MaxAskAbs] :
        LET r == update_position(pos, signals, asks_abs, inventory_limit)
        IN  /\ \A i \in 1..Len(pos) : signals[i] = 0 => asks_abs[i] = 1
            /\ pos' = r.pos
            /\ path' = "update_position"
            /\ call' = [NoCall EXCEPT !.signals = signals, !.asks_abs = asks_abs,
                                      !.aimd = r.aimd,
                                      !.trades_to_execute = r.trades_to_execute]
            /\ UNCHANGED <<inventory_limit, asks, orchestrator_vars>>

LedgerReset ==
    /\ pos' = reset_position(Len(pos))
    /\ path' = "reset_position"
    /\ call' = NoCall
    /\ UNCHANGED <<inventory_limit, asks, orchestrator_vars>>

LedgerNext == LedgerUpdate \/ LedgerReset

SpecLedger == LedgerInit /\ [][LedgerNext]_vars

(***************************************************************************)
(* The Asks sizer on its own: Asks.update called with any PnL list and any *)
(* closed flags, while no ask limit exceeds MaxAsk.                        *)
(***************************************************************************)
PnlValues == {-3, 0, 5}

AsksUpdate ==
    \E last_traded_pnl \in [1..Len(asks) -> PnlValues],
       aimd \in [1..Len(asks) -> {0, 1}] :
        /\ \A i \in 1..Len(asks) : asks[i] <= MaxAsk
        /\ asks' = asks_update(asks, last_traded_pnl, aimd)
        /\ path' = "asks_update"
        /\ call' = [NoCall EXCEPT !.pnl_list = last_traded_pnl, !.aimd = aimd]
        /\ UNCHANGED <<pos, inventory_limit, orchestrator_vars>>

SpecAsks == Init /\ [][AsksUpdate]_vars

(***************************************************************************)
(* The Orchestrator built with any configuration, valid or not: each of    *)
(* inventory_limit, trade_limit and cooldown_period is negative, zero or   *)
(* the value of the reference configuration.  Runs are MaxConfigTicks long.*)
(***************************************************************************)
MaxConfigTicks == 2

ConfigValues(valid) == {-1, 0, valid}

ConfigInit ==
    /\ inventory_limit \in ConfigValues(InventoryLimit)
    /\ pos = [i \in Slots |-> 0]
    /\ asks = [i \in Slots |-> InitialAsk]
    /\ \E tl \in ConfigValues(TradeLimit), cd \in ConfigValues(CooldownPeriod) :
           InitOrchestratorWith(tl, cd)
    /\ path = "init"
    /\ call = NoCall

ConfigNext == tick.n < MaxConfigTicks /\ Next

SpecConfig == ConfigInit /\ [][ConfigNext]_vars

(***************************************************************************)
(* get_signals on its own: called for any book the ledger can hold (one    *)
(* direction, within the inventory limit) with any answers of the          *)
(* strategies to the four checks.                                          *)
(***************************************************************************)
AllAnswers == {Answer(le, se, lx, sx) : le \in BOOLEAN, se \in BOOLEAN,
                                        lx \in BOOLEAN, sx \in BOOLEAN}

HeldBooks ==
    {p \in [Slots -> (-MaxAskAbs)..MaxAskAbs] :
        /\ SumSeq([i \in Slots |-> Abs(p[i])]) <= InventoryLimit
        /\ \A i, j \in Slots : p[i] * p[j] >= 0}

SignalsInit ==
    /\ inventory_limit = InventoryLimit
    /\ pos \in HeldBooks
    /\ asks = [i \in Slots |-> InitialAsk]
    /\ InitOrchestrator
    /\ path = "init"
    /\ call = NoCall

SignalsCall ==
    \E answers \in [Slots -> AllAnswers] :
        /\ call' = [NoCall EXCEPT !.answers = answers,
                                  !.signals = get_signals(pos, answers)]
        /\ path' = "get_signals"
        /\ UNCHANGED <<pos, inventory_limit, asks, orchestrator_vars>>

SpecSignals == SignalsInit /\ [][SignalsCall]_vars

(***************************************************************************)
(* Properties.                                                             *)
(***************************************************************************)
SumAbs(s) == SumSeq([i \in 1..Len(s) |-> Abs(s[i])])

\* the signed quantity of the last row of a trade book
FillQty(book) == IF book.last.Side = "Buy" THEN book.last.Quantity
                 ELSE -book.last.Quantity

\* a step that is a call of process_tick on which a release fires
ReleaseStep == trade_book'.len = trade_book.len + 1

\* a step that is a call of process_tick
TickStep == tick'.n = tick.n + 1

\* C1 (cap invariant): after every update_position call, for every inventory
\* limit, the sum over the slots of |position_i| is at most the limit.
C1_CapInvariant == SumAbs(pos) <= inventory_limit

\* C1 witness: a call whose requests exceed a positive limit and which ends
\* with the book exactly at the cap
C1_Witness ==
    /\ path = "update_position"
    /\ inventory_limit > 0
    /\ SumSeq([i \in 1..Len(pos) |-> call.asks_abs[i] * Abs(call.signals[i])])
           > inventory_limit
    /\ SumAbs(pos) = inventory_limit

\* C2 (direction invariant): after every update_position call no two slots
\* hold nonzero positions of opposite sign.
C2_DirectionInvariant ==
    \A i, j \in 1..Len(pos) : pos[i] * pos[j] >= 0

\* C2 witness: a call with requests in both directions that squared a slot
\* off and left two slots holding positions
C2_Witness ==
    /\ path = "update_position"
    /\ \E i, j \in 1..Len(pos) : call.signals[i] = 1 /\ call.signals[j] = -1
    /\ \E i \in 1..Len(pos) : call.aimd[i] = 1
    /\ \E i, j \in 1..Len(pos) : i # j /\ pos[i] # 0 /\ pos[j] # 0

\* C3 (backlog conservation): on every process_tick call the backlog changes
\* by the net delta of the positions (sum of the new positions minus sum of
\* the old ones: the update_position delta, or the end-of-day push of
\* -sum(oldPositions)) minus the quantity released on that tick; summed over
\* any window of calls this is the conservation law of the claim.
C3_BacklogConservation ==
    [][trade_backlog' = trade_backlog
                        + (SumSeq(pos') - SumSeq(pos))
                        - (IF ReleaseStep THEN FillQty(trade_book') ELSE 0)]_vars

\* C3 witness: an end-of-day push onto a backlog after a delta was accumulated
\* and a slice of it released
C3_Witness ==
    /\ path = "eod"
    /\ trade_book.len > 0
    /\ trade_backlog # 0

\* C4 (cooldown in tick time): a release fires only with a nonzero backlog and
\* more than cooldown_period after the release baseline, and two releases of
\* one day have tick times that differ by more than cooldown_period.
C4_Cooldown ==
    [][ReleaseStep =>
          /\ trade_backlog # 0
          /\ current_pointer'
               - (IF current_day' # current_day THEN -cooldown_period
                  ELSE last_trade_time) > cooldown_period
          /\ (trade_book.len > 0 /\ trade_book.last.Day = trade_book'.last.Day
                => trade_book'.last.Time - trade_book.last.Time > cooldown_period)]_vars

\* C4 witness: the second release of a day
C4_Witness ==
    /\ path = "release"
    /\ trade_book.len - day_start.trade_idx >= 2

\* C5 (release size): a release moves min(|backlog|, trade_limit) with the sign
\* of the backlog: nonzero, at most trade_limit, never past the backlog.
C5_ReleaseSize ==
    [][ReleaseStep =>
          LET qty == current_inventory' - current_inventory
          IN  /\ qty = FillQty(trade_book')
              /\ qty # 0
              /\ Abs(qty) = Min(Abs(trade_backlog), trade_limit)
              /\ Abs(qty) <= trade_limit
              /\ Sign(qty) = Sign(trade_backlog)
              /\ Sign(trade_backlog') \in {0, Sign(trade_backlog)}
              /\ Abs(trade_backlog') = Abs(trade_backlog) - Abs(qty)]_vars

\* C5 witness: a release of less than trade_limit (the backlog was the smaller)
C5_Witness ==
    /\ path = "release"
    /\ Abs(call.execute_qty) < trade_limit
    /\ trade_backlog = 0

\* C6 as claimed: a tick on which a release fires collects no signal and leaves
\* positions, entry prices and times, ask limits and eod_squared_off unchanged.
C6_ReleaseConsumesTick_Claimed ==
    [][ReleaseStep =>
          /\ call'.signals = <<>>
          /\ pos' = pos
          /\ entry_prices' = entry_prices
          /\ entry_times' = entry_times
          /\ asks' = asks
          /\ eod_squared_off' = eod_squared_off]_vars

\* C6 as amended: a tick on which a release fires collects no signal and leaves
\* positions, entry prices and times and ask limits unchanged; eod_squared_off
\* is unchanged unless the tick brings a new day identifier, in which case the
\* day rollover clears it before the release.
C6_ReleaseConsumesTick ==
    [][ReleaseStep =>
          /\ call'.signals = <<>>
          /\ pos' = pos
          /\ entry_prices' = entry_prices
          /\ entry_times' = entry_times
          /\ asks' = asks
          /\ eod_squared_off' = (IF current_day' # current_day THEN FALSE
                                 ELSE eod_squared_off)]_vars

\* C6 witness: a release on the first tick of the day after a squared-off day
\* (the book is flat and still records the entry price of the slot the square-off
\* closed), which released the backlog carried over
C6_Witness ==
    /\ path = "release"
    /\ ~eod_squared_off
    /\ tick.Day = 2
    /\ day_start.trade_idx = trade_book.len - 1
    /\ \A i \in Slots : pos[i] = 0
    /\ \E i \in Slots : entry_prices[i] # 0

\* C7 (AIMD rule of Asks.update): a flagged slot with positive PnL gains
\* RewardAdd, a flagged slot with negative PnL drops to
\* max(1, floor(ask * penalty_mult)), any other slot is unchanged.
C7_AimdRule ==
    [][path' = "asks_update" =>
          \A i \in 1..Len(asks) :
              LET pnl == call'.pnl_list[i]
                  closed == call'.aimd[i] = 1
              IN  /\ (closed /\ pnl > 0 => asks'[i] = asks[i] + RewardAdd)
                  /\ (closed /\ pnl < 0 =>
                          asks'[i] = Max(1, (asks[i] * PenaltyNum) \div PenaltyDen))
                  /\ (pnl = 0 \/ ~closed => asks'[i] = asks[i])]_vars

\* C7 witness: a losing close that the floor holds at 1 while the other slot
\* has been rewarded
C7_Witness ==
    /\ path = "asks_update"
    /\ \E i \in 1..Len(asks) :
           call.aimd[i] = 1 /\ call.pnl_list[i] < 0 /\ asks[i] = 1
    /\ \E i \in 1..Len(asks) : asks[i] > InitialAsk

\* the PnL of closing old_position, entered at entry_price, at exit_price
\* (in money units of 1/TranCostDen)
RealizedPnl(entry_price, exit_price, old_position) ==
    (exit_price - entry_price) * Sign(old_position) * Abs(old_position) * TranCostDen
    - TranCostNum * (entry_price + exit_price) * Abs(old_position)

\* C8 (realized PnL attribution): for every slot update_position flags closed,
\* the PnL passed to Asks.update is the realized PnL of the old position from
\* its recorded entry price to this tick's price, net of transaction cost.
C8_PnlAttribution ==
    [][path' = "signals" =>
          \A i \in Slots :
              call'.aimd[i] = 1 =>
                  call'.pnl_list[i]
                      = RealizedPnl(entry_prices[i], tick'.Price, pos[i])]_vars

\* C9 (end-to-end AIMD feedback): a slot closed at a profit (net of cost) gains
\* RewardAdd on that tick, a slot closed at a loss drops to
\* max(1, floor(ask * penalty_mult)).
C9_AimdFeedback ==
    [][path' = "signals" =>
          \A i \in Slots :
              call'.aimd[i] = 1 =>
                  LET pnl == RealizedPnl(entry_prices[i], tick'.Price, pos[i])
                  IN  /\ (pnl > 0 => asks'[i] = asks[i] + RewardAdd)
                      /\ (pnl < 0 =>
                              asks'[i] = Max(1, (asks[i] * PenaltyNum) \div PenaltyDen))]_vars

\* C10 (EOD idempotence): once eod_squared_off is set, a further tick of the
\* same day leaves every position at zero, collects no signal, calls neither
\* update_position nor Asks.update, leaves the ask limits unchanged and keeps
\* the flag; it may only snapshot and release.
C10_EodIdempotence ==
    [][(TickStep /\ eod_squared_off /\ current_day' = current_day) =>
          /\ \A i \in Slots : pos[i] = 0 /\ pos'[i] = 0
          /\ call'.signals = <<>>
          /\ call'.aimd = <<>>
          /\ asks' = asks
          /\ eod_squared_off'
          /\ path' \in {"release", "squared_off"}]_vars

\* C10 witness: a release on a tick after the square-off of the same day: the
\* second release of the run, unwinding what the first one had bought or sold
C10_Witness ==
    /\ path = "release"
    /\ eod_squared_off
    /\ trade_book.len >= 2
    /\ current_inventory = 0

\* C11 as claimed: every tick processed while the day is not squared off
\* (after the day rollover) and whose time is at or past day_length ends
\* squared off, with every position zero, -sum(old positions) pushed onto the
\* backlog and every strategy reset.
C11_EodTransition_Claimed ==
    [][(TickStep /\ (current_day' # current_day \/ ~eod_squared_off)
                 /\ tick'.Time >= DayLength) =>
          /\ eod_squared_off'
          /\ \A i \in Slots : pos'[i] = 0
          /\ trade_backlog' = trade_backlog - SumSeq(pos)
          /\ \A i \in Slots : strat_entry_price'[i] = 0]_vars

\* C11 as amended: the same, for the ticks on which no release fires; a tick on
\* which a release fires leaves the day not squared off and the positions as
\* they are.
C11_EodTransition ==
    [][(TickStep /\ (current_day' # current_day \/ ~eod_squared_off)
                 /\ tick'.Time >= DayLength) =>
          IF ReleaseStep
          THEN ~eod_squared_off' /\ pos' = pos
          ELSE /\ eod_squared_off'
               /\ \A i \in Slots : pos'[i] = 0
               /\ trade_backlog' = trade_backlog - SumSeq(pos)
               /\ \A i \in Slots : strat_entry_price'[i] = 0]_vars

\* C11 witness: a square-off of a held and fully executed book: the push leaves
\* the backlog at exactly minus the executed inventory
C11_Witness ==
    /\ path = "eod"
    /\ eod_squared_off
    /\ current_inventory # 0
    /\ trade_backlog = -current_inventory
    /\ \A i \in Slots : pos[i] = 0

\* C12 (day-state reset): a tick whose day identifier differs from current_day
\* resets the day state (current_day, the day-start equity, fees and trade
\* index, the release baseline) and clears eod_squared_off, which ends the tick
\* set only if this very tick squares off; a tick with the same day identifier
\* leaves the day state as it is, moves the release baseline only by a release,
\* and never takes eod_squared_off from true to false.
C12_DayStateReset ==
    [][TickStep =>
          IF tick'.Day # current_day
          THEN /\ current_day' = tick'.Day
               /\ day_start' = [equity |-> cash + current_inventory * tick'.Price
                                                  * TranCostDen,
                                fees |-> total_fee,
                                trade_idx |-> trade_book.len]
               /\ last_trade_time' = (IF ReleaseStep THEN tick'.Time
                                      ELSE -cooldown_period)
               /\ eod_squared_off' = (path' = "eod")
          ELSE /\ current_day' = current_day
               /\ day_start' = day_start
               /\ last_trade_time' = (IF ReleaseStep THEN tick'.Time
                                      ELSE last_trade_time)
               /\ (eod_squared_off => eod_squared_off')]_vars

\* C12 witness: the second day started after a fill of the first day (its
\* day-start trade index and fees are not the initial ones), was squared off,
\* and a later tick of that day, a release, kept the flag
C12_Witness ==
    /\ tick.Day = 2
    /\ day_start.trade_idx = 1
    /\ day_start.fees > 0
    /\ eod_squared_off
    /\ trade_book.len = 2

\* the signed requests of an update_position call
SignedAsks(c) == [i \in 1..Len(c.signals) |-> c.asks_abs[i] * c.signals[i]]

\* the slots of a call that trip the square-off rule
Trips(p, a, i) == a[i] * p[i] < 0

\* the slots that can fix the direction: not tripping, with a request or a
\* position; the lowest of them fixes it
Lockers(p, a) == {i \in 1..Len(p) : ~Trips(p, a, i) /\ (a[i] # 0 \/ p[i] # 0)}

Lowest(S) == CHOOSE i \in S : \A j \in S : i <= j

LockedDirection(p, a) ==
    IF Lockers(p, a) = {} THEN 0
    ELSE LET k == Lowest(Lockers(p, a))
         IN  IF a[k] # 0 THEN Sign(a[k]) ELSE Sign(p[k])

\* the positions, flags and direction of a call before normalization
BeforeNormalize(p, a) ==
    update_loop([pos |-> p, aimd |-> [i \in 1..Len(p) |-> 0], direction |-> 0], 1, a)

\* C13 (square-off precedence): every slot whose signed request and position
\* have opposite signs ends the call at 0 with its closed flag set, whatever
\* the direction and the other slots; the direction of the call is the one the
\* other slots alone fix.
C13_SquareOffPrecedence ==
    [][path' = "update_position" =>
          LET a == SignedAsks(call')
          IN  /\ \A i \in 1..Len(pos) :
                     Trips(pos, a, i) => pos'[i] = 0 /\ call'.aimd[i] = 1
              /\ BeforeNormalize(pos, a).direction = LockedDirection(pos, a)]_vars

\* C13 witness: a call in which the first slot squared off against a short
\* request while a later slot kept its long position
C13_Witness ==
    /\ path = "update_position"
    /\ call.signals[1] = -1
    /\ call.aimd[1] = 1
    /\ pos[1] = 0
    /\ \E i \in 2..Len(pos) : pos[i] > 0 /\ call.aimd[i] = 0 /\ call.signals[i] = 0

\* C14 (direction lock): the direction of a call is fixed by the lowest slot
\* that does not trip square-off and has a request or a position (sign of the
\* request if any, else of the position); for every later slot that does not
\* trip square-off, before normalization: a flat slot whose request agrees with
\* the direction takes its request, a slot whose position disagrees with the
\* direction is set to 0 and flagged closed, any other slot keeps its position
\* and is not flagged.
C14_DirectionLock ==
    [][path' = "update_position" =>
          \A a \in {SignedAsks(call')} :
          \A st \in {BeforeNormalize(pos, a)} :
          LET dir == LockedDirection(pos, a)
          IN  /\ st.direction = dir
              /\ call'.aimd = st.aimd
              /\ Lockers(pos, a) # {} =>
                     \A i \in (Lowest(Lockers(pos, a)) + 1)..Len(pos) :
                         ~Trips(pos, a, i) =>
                             IF pos[i] = 0 /\ a[i] * dir > 0
                             THEN st.pos[i] = a[i]
                             ELSE IF pos[i] * dir < 0
                             THEN st.pos[i] = 0 /\ call'.aimd[i] = 1
                             ELSE st.pos[i] = pos[i] /\ call'.aimd[i] = 0]_vars

\* C14 witness: the first slot, flat, fixed the direction short with its
\* request; the second, a long holder without a request, was closed; the third,
\* flat with a long request, stayed flat
C14_Witness ==
    /\ path = "update_position"
    /\ call.signals = <<-1, 0, 1>>
    /\ call.aimd = <<0, 1, 0>>
    /\ pos[1] < 0
    /\ pos[3] = 0

\* the sum of |v_j| over the slots 1..i
PrefixAbs(v, i) == SumSeq([j \in 1..i |-> Abs(v[j])])

\* C15 (first-come allocation, limit >= 0): if k is the first slot at which the
\* running sum of |value| exceeds the limit, the slots before k are unchanged,
\* slot k is clamped to the headroom left with its sign kept, and every slot
\* after k ends at 0; without such a slot nothing changes.  The net delta that
\* update_position returns is the sum of the normalized positions minus the
\* sum of the old ones.
C15_FirstComeAllocation ==
    [][(path' = "update_position" /\ inventory_limit >= 0) =>
          \A v \in {BeforeNormalize(pos, SignedAsks(call')).pos} :
          LET L == inventory_limit
              Over == {i \in 1..Len(v) : PrefixAbs(v, i) > L}
          IN  /\ IF Over = {} THEN pos' = v
                 ELSE LET k == Lowest(Over)
                      IN  \A j \in 1..Len(v) :
                              pos'[j] = IF j < k THEN v[j]
                                        ELSE IF j = k
                                        THEN (L - PrefixAbs(v, k - 1)) * Sign(v[k])
                                        ELSE 0
              /\ call'.trades_to_execute = SumSeq(pos') - SumSeq(pos)]_vars

\* C15 witness: a flat book with limit 2 and long requests 1, 2 and 1: the
\* second is clamped to the headroom of 1, the third gets nothing, and the net
\* delta is the whole limit
C15_Witness ==
    /\ path = "update_position"
    /\ inventory_limit = 2
    /\ call.signals = <<1, 1, 1>>
    /\ call.asks_abs = <<1, 2, 1>>
    /\ pos = <<1, 1, 0>>
    /\ call.trades_to_execute = 2

\* C16 (release execution effects): a release of the signed quantity qty at
\* price p takes qty*p + fee from the cash, adds qty to the executed inventory
\* and fee = transaction_cost * p * |qty| to the cumulative fee, sets
\* last_trade_time to the tick time and appends exactly one trade record; on
\* any other tick the cash and the executed inventory do not change.
C16_ReleaseEffects ==
    [][TickStep =>
          IF path' = "release"
          THEN LET qty == call'.execute_qty
                   p == tick'.Price
                   fee == TranCostNum * p * Abs(qty)
               IN  /\ cash' = cash - (qty * p * TranCostDen + fee)
                   /\ current_inventory' = current_inventory + qty
                   /\ total_fee' = total_fee + fee
                   /\ last_trade_time' = tick'.Time
                   /\ trade_book'.len = trade_book.len + 1
                   /\ FillQty(trade_book') = qty
                   /\ trade_book'.last.Time = tick'.Time
                   /\ trade_book'.last.Price = p
          ELSE /\ cash' = cash
               /\ current_inventory' = current_inventory
               /\ trade_book' = trade_book]_vars

\* C16 witness: a sell at price 3 has been released: the cash is above the
\* initial equity by the proceeds less the fee
C16_Witness ==
    /\ path = "release"
    /\ trade_book.len = 1
    /\ trade_book.last.Side = "Sell"
    /\ tick.Price = 3
    /\ cash = InitialEquity - (call.execute_qty * 3 * TranCostDen) - total_fee
    /\ cash > InitialEquity
    /\ total_fee > 0

\* C17 (entry bookkeeping): after every tick, for every slot, a position that
\* is zero has its entry price and entry time cleared, whatever took it to
\* zero; a position that went from zero to nonzero on the tick has the price
\* and time of that tick; a position that stays nonzero keeps its entry price
\* and time.
C17_EntryBookkeeping ==
    [][TickStep =>
          \A i \in Slots :
              /\ pos'[i] = 0 => entry_prices'[i] = 0 /\ entry_times'[i] = NoTime
              /\ (pos[i] = 0 /\ pos'[i] # 0) =>
                     entry_prices'[i] = tick'.Price /\ entry_times'[i] = tick'.Time
              /\ (pos[i] # 0 /\ pos'[i] # 0) =>
                     entry_prices'[i] = entry_prices[i]
                     /\ entry_times'[i] = entry_times[i]]_vars

\* C18 (signal collection): for every slot the signal is +1 if the slot is flat
\* and long entry is reported (also together with short entry), -1 if it is
\* flat and only short entry is reported, -1 if it is long and long exit is
\* reported, +1 if it is short and short exit is reported, and 0 otherwise; a
\* slot holding a position emits 0 or the signal opposite to its position.
C18_SignalCollection ==
    path = "get_signals" =>
        \A i \in Slots :
            LET p == pos[i]
                s == call.signals[i]
                ans == call.answers[i]
            IN  /\ (p = 0 /\ ans.long_entry) => s = 1
                /\ (p = 0 /\ ~ans.long_entry /\ ans.short_entry) => s = -1
                /\ (p = 0 /\ ~ans.long_entry /\ ~ans.short_entry) => s = 0
                /\ (p > 0 /\ ans.long_exit) => s = -1
                /\ (p > 0 /\ ~ans.long_exit) => s = 0
                /\ (p < 0 /\ ans.short_exit) => s = 1
                /\ (p < 0 /\ ~ans.short_exit) => s = 0
                /\ p # 0 => (s = 0 \/ s * p < 0)

\* C18 witness: a flat slot whose strategy reports long and short entry at once
\* got +1, next to a long slot whose strategy reports long exit and got -1
C18_Witness ==
    /\ path = "get_signals"
    /\ pos[1] = 0
    /\ call.answers[1].long_entry /\ call.answers[1].short_entry
    /\ call.signals[1] = 1
    /\ pos[2] > 0
    /\ call.answers[2].long_exit
    /\ call.signals[2] = -1

\* C19 (configuration errors fail fast): no tick is ever processed by an engine
\* whose inventory_limit, trade_limit or cooldown_period is not positive.
C19_ConfigFailFast ==
    tick.n > 0 =>
        inventory_limit > 0 /\ trade_limit > 0 /\ cooldown_period > 0

\* C20 (cooldown in tick count): two consecutive releases are at least
\* cooldown_period + 1 ticks apart; with a cooldown_period of at least 1 this
\* makes a release on the tick right after a release impossible, which is what
\* is stated here.
C20_CooldownInTicks ==
    [][(ReleaseStep /\ cooldown_period >= 1) => path # "release"]_vars

\* C21 (snapshot consistency): every tick whose time is a multiple of the
\* snapshot period appends one snapshot for that tick, in which
\* equity = cash + inventory * price for the cash and the inventory of the same
\* record (Equity and Cash are in hundredths).
C21_SnapshotConsistency ==
    [][(TickStep /\ tick'.Time % SnapshotPeriod = 0) =>
          /\ snap_book'.len = snap_book.len + 1
          /\ snap_book'.last.Time = tick'.Time
          /\ snap_book'.last.Day = tick'.Day
          /\ snap_book'.last.Equity
                 = snap_book'.last.Cash
                   + snap_book'.last.Inventory * snap_book'.last.Price * 100]_vars

\* C22 (trade-fill record): the inventory recorded for a release is the
\* executed inventory that results from it, the executed inventory before the
\* release plus the signed released quantity; the side is Buy exactly when the
\* released quantity is positive and Sell exactly when it is negative.
C22_TradeFillRecord ==
    [][ReleaseStep =>
          LET qty == call'.execute_qty
              row == trade_book'.last
          IN  /\ row.Inventory = current_inventory + qty
              /\ row.Side = "Buy" <=> qty > 0
              /\ row.Side = "Sell" <=> qty < 0
              /\ row.Quantity = Abs(qty)]_vars

\* C23 (target/executed reconciliation): in every state between ticks the
\* executed inventory plus the trade backlog equals the sum of all slots'
\* positions, across signal ticks, releases, the end-of-day square-off and day
\* changes.
C23_Reconciliation == current_inventory + trade_backlog = SumSeq(pos)

\* a second day is entered with part of the book executed and part waiting
C23_Witness ==
    /\ current_day = 2
    /\ current_inventory # 0
    /\ trade_backlog # 0
    /\ SumSeq(pos) # 0
    /\ trade_book.len > 0

\* C24 (executed exposure is capped): with inventory_limit L >= 0 and
\* trade_limit >= 1, in every reachable state |current_inventory| <= L and
\* |trade_backlog| <= 2L.
C24_ExecutedExposureCapped ==
    (inventory_limit >= 0 /\ trade_limit >= 1) =>
        /\ Abs(current_inventory) <= inventory_limit
        /\ Abs(trade_backlog) <= 2 * inventory_limit

\* the executed inventory is on one side while the target book has moved to
\* the other, so the backlog is larger than the inventory limit
C24_Witness ==
    /\ inventory_limit >= 0 /\ trade_limit >= 1
    /\ current_inventory * trade_backlog < 0
    /\ Abs(trade_backlog) > inventory_limit
    /\ trade_book.len > 0

\* C25 (closed flags are complete): in every update_position call of a tick,
\* with the signals get_signals collected and the current ask limits, closed_i is
\* set if and only if slot i's position goes from nonzero before the call to
\* zero after it, and a slot that is not flagged closed and held a position
\* before the call holds the same position after it.
C25_ClosedFlagsComplete ==
    [][path' = "signals" =>
          \A i \in 1..Len(pos) :
              /\ call'.aimd[i] = 1 <=> (pos[i] # 0 /\ pos'[i] = 0)
              /\ (call'.aimd[i] = 0 /\ pos[i] # 0) => pos'[i] = pos[i]]_vars

\* C26 (no flip): in one update_position call with inventory_limit >= 0 no
\* slot's position goes from positive to negative or from negative to positive;
\* a slot whose request opposes its position ends the call at zero.
C26_NoFlip ==
    [][(path' = "update_position" /\ inventory_limit >= 0) =>
          \A i \in 1..Len(pos) :
              /\ pos'[i] * pos[i] >= 0
              /\ Trips(pos, SignedAsks(call'), i) => pos'[i] = 0]_vars

\* slot 1 held a long position and asked for a short one: it ends flat and
\* flagged, while slot 2 is short after the same call
C26_Witness ==
    /\ path = "update_position"
    /\ inventory_limit >= 1
    /\ call.signals[1] = -1
    /\ call.aimd[1] = 1
    /\ pos[1] = 0
    /\ pos[2] < 0

\* C27 (the ask limit bounds entries and stays alive): with InitialAsk >= 1,
\* RewardAdd >= 0 and a penalty factor >= 0, every ask limit is >= 1 in every
\* reachable state, and whenever a slot's position goes from zero to nonzero on
\* a tick its magnitude is at most that slot's ask limit at the start of the
\* tick and at most inventory_limit.
C27_AskLimitBoundsEntries ==
    /\ [](\A i \in Slots : asks[i] >= 1)
    /\ [][TickStep =>
             \A i \in Slots :
                 (pos[i] = 0 /\ pos'[i] # 0) =>
                     /\ Abs(pos'[i]) <= asks[i]
                     /\ Abs(pos'[i]) <= inventory_limit]_vars

\* a slot that lost on its last trade enters again with the whole of its
\* reduced ask limit
C27_Witness ==
    /\ path = "signals"
    /\ \E i \in Slots :
           /\ call.signals[i] # 0
           /\ pos[i] # 0
           /\ call.asks_abs[i] < InitialAsk
           /\ Abs(pos[i]) = call.asks_abs[i]

\* C28 (fee accounting): the cumulative fee grows on a release by
\* transaction cost * price * |qty|, the fee that release deducts from cash, and
\* a tick without a release leaves it unchanged; so it always equals the sum
\* of the release fees so far.
C28_FeeAccounting ==
    [][TickStep =>
          total_fee' = total_fee
                       + (IF ReleaseStep
                          THEN TranCostNum * tick'.Price * Abs(call'.execute_qty)
                          ELSE 0)]_vars

\* C29 (the backlog drains): with trade_limit >= 1 and cooldown_period >= 0,
\* once the day is squared off with a backlog waiting, and ticks of the same day
\* keep arriving past the cooldown, the backlog eventually reaches 0 and the
\* executed inventory is then 0 (unless a new day starts first).
C29_BacklogDrains ==
    (eod_squared_off /\ trade_backlog # 0)
        ~> \/ eod_squared_off /\ trade_backlog = 0 /\ current_inventory = 0
           \/ ~eod_squared_off

\* a backlog left by the square-off has been released in slices by ticks after
\* the end of the day, and nothing is held or waiting any more
C29_Witness ==
    /\ path = "release"
    /\ eod_squared_off
    /\ trade_backlog = 0
    /\ current_inventory = 0
    /\ tick.Time > DayLength + MaxLate + CooldownPeriod + 1
    /\ trade_book.len >= 3

\* C30 (no trading at or after the day length): on a tick whose time of day is
\* >= DayLength, update_position is not called, no slot's position goes from
\* zero to nonzero, and the positions are left unchanged or all set to zero.
C30_NoTradingAfterDayLength ==
    [][(TickStep /\ tick'.Time >= DayLength) =>
          /\ path' # "signals"
          /\ call'.signals = <<>>
          /\ \A i \in Slots : pos[i] = 0 => pos'[i] = 0
          /\ pos' = pos \/ \A i \in Slots : pos'[i] = 0]_vars

\* a tick at the day length released a backlog slice and left the held
\* positions as they were
C30_Witness ==
    /\ path = "release"
    /\ tick.Time >= DayLength
    /\ \E i \in Slots : pos[i] # 0

\* C31 (cooldown baseline reset on day change): the first tick of a new day
\* resets the release baseline to -cooldown_period, so a nonzero backlog
\* carried over from the previous day is released on that tick exactly when its
\* time of day is greater than 0, whenever the previous day's last release
\* happened; while the day has had no release yet, a waiting backlog is
\* released on the first tick with a time of day greater than 0 and on no tick
\* at time 0.
C31_CooldownBaselineReset ==
    [][TickStep =>
          /\ tick'.Day # current_day =>
                 /\ trade_backlog # 0 => (ReleaseStep <=> tick'.Time > 0)
                 /\ trade_backlog = 0 => ~ReleaseStep
                 /\ last_trade_time' = IF ReleaseStep THEN tick'.Time
                                       ELSE -cooldown_period
          /\ (tick'.Day = current_day /\ last_trade_time = -cooldown_period
                                      /\ trade_backlog # 0) =>
                 (ReleaseStep <=> tick'.Time > 0)]_vars

\* the first day had an entry and one release; the rest of the backlog was
\* carried over and released on the first tick of the second day
C31_Witness ==
    /\ path = "release"
    /\ tick.Day = 2
    /\ tick.Time > 0
    /\ tick.n = 3
    /\ day_start.trade_idx = 1
    /\ trade_book.len = 2

====
